---- MODULE Spec2Model ----
(***************************************************************************)
(* A model of the superlinked framework's search index manager             *)
(* (DynamicSearchIndexManager), online number-embedding node               *)
(* (OnlineNumberEmbeddingNode) and ImageSpace construction.                *)
(*                                                                         *)
(* Four specifications share the module:                                   *)
(*   Spec      - one caller of the index manager, calls and drops in turn  *)
(*   SpecConc  - two callers of one index manager, steps interleaved       *)
(*   SpecEval  - online / query evaluation of a number-embedding node      *)
(*   SpecImage - construction of an ImageSpace                             *)
(***************************************************************************)
EXTENDS Naturals, Sequences, FiniteSets

VARIABLES
    \* ---- DynamicSearchIndexManager ----
    _index_configs,         \* self._index_configs: dict index_name -> IndexConfig
    vdb,                    \* the backend's set of present index names
    pc,                     \* per caller: the line of init_search_indices it is at
    args,                   \* per caller: the arguments of its current call
    existing_index_names,   \* per caller: local variable of line 32
    pos,                    \* per caller: position of the for loop of line 33
    created,                \* per caller: names passed to _create_search_index in this call
    before,                 \* per caller: tracked dict and backend list when the call began
    repeated,               \* per caller: its call repeats, with the same arguments, the
                            \* call it made just before, which returned without error
    prev_created,           \* per caller: the value of created when its previous call ended
    calls,                  \* per caller: calls begun (counted for the interleaved callers)
    dropped,                \* names dropped from the backend after a caller's last call created them
    \* ---- OnlineNumberEmbeddingNode ----
    node_length,            \* self.node.length
    node_parents,           \* len(self.parents)
    transform_fn,           \* what self.embedding_transformation.transform computes
    default_vector,         \* self.node.transformation_config.embedding_config.default_vector
    storage,                \* the storage manager: record id -> stored vector of the node
    evaluated,              \* an evaluation pass has run and its results are at hand
    parsed_schemas,         \* the batch given to the last evaluate_self
    context,                \* the context given to the last evaluate_self
    results,                \* what the last evaluate_self returned
    loaded,                 \* the keys the last evaluate_self looked up in storage
    parent_evaluated,       \* whether the last evaluate_self evaluated the parent
    \* ---- ImageSpace ----
    image,                  \* the image argument of the last ImageSpace(...)
    space                   \* what that construction left: the error or the attributes set

idxVars == <<_index_configs, vdb, pc, args, existing_index_names, pos, created,
             before, repeated, prev_created, calls, dropped>>

evalVars == <<node_length, node_parents, transform_fn, default_vector, storage,
              evaluated, parsed_schemas, context, results, loaded, parent_evaluated>>

imgVars == <<image, space>>

vars == <<idxVars, evalVars, imgVars>>

\* --------------------------------------------------------------------------
\* Bounds
\* --------------------------------------------------------------------------
MaxConfigs == 2         \* longest index_configs sequence passed to one call
MaxConcConfigs == 1     \* the same, for the two interleaved callers
MaxConcCalls == 1       \* calls each of the two interleaved callers makes
MaxBatch == 2           \* longest batch of parsed records given to evaluate_self
MaxLength == 1          \* largest declared length of the number-embedding node
MaxImages == 3          \* longest sequence of images given to ImageSpace

\* --------------------------------------------------------------------------
\* Helpers
\* --------------------------------------------------------------------------
Range(s) == {s[k] : k \in 1..Len(s)}

SeqsUpTo(S, n) == UNION {[1..k -> S] : k \in 0..n}

NoDuplicates(s) == \A j, k \in 1..Len(s) : s[j] = s[k] => j = k

EmptyDict == [x \in {} |-> 0]

DictPut(d, k, v) == [x \in (DOMAIN d) \cup {k} |-> IF x = k THEN v ELSE d[x]]

\* --------------------------------------------------------------------------
\* Index configs and the backend
\* --------------------------------------------------------------------------
IndexNames == {"idx_a", "idx_b"}

SearchAlgorithms == {"FLAT", "HNSW"}

\* IndexConfig: the index name and the search algorithm its vector field
\* descriptor declares.
IndexConfig == [index_name : IndexNames, search_algorithm : SearchAlgorithms]

\* The backend's supported-algorithm set.
supported_vector_indexing == {"FLAT"}

Callers == {1, 2}

\* _list_search_index_names_from_vdb: the indices the backend holds now.
_list_search_index_names_from_vdb == vdb

\* dict built by assigning the configs of s in order (the last one of a name wins)
RECURSIVE DictOf(_)
DictOf(s) ==
    IF Len(s) = 0 THEN EmptyDict
    ELSE DictPut(DictOf(SubSeq(s, 1, Len(s) - 1)), s[Len(s)].index_name, s[Len(s)])

\* --------------------------------------------------------------------------
\* DynamicSearchIndexManager.init_search_indices, one step per statement
\* --------------------------------------------------------------------------
CurrentConfig(c) == args[c].index_configs[pos[c]]

\* the call: init_search_indices(index_configs, override_existing)
CallInit(c, index_configs, override_existing) ==
    /\ pc[c] \in {"idle", "returned", "raised"}
    /\ pc' = [pc EXCEPT ![c] = "L31"]
    /\ args' = [args EXCEPT ![c] = [index_configs |-> index_configs,
                                    override_existing |-> override_existing]]
    /\ pos' = [pos EXCEPT ![c] = 1]
    /\ created' = [created EXCEPT ![c] = <<>>]
    /\ before' = [before EXCEPT ![c] = [tracked |-> _index_configs, vdb |-> vdb]]
    /\ repeated' = [repeated EXCEPT ![c] =
                        /\ pc[c] = "returned"
                        /\ args[c] = [index_configs |-> index_configs,
                                      override_existing |-> override_existing]]
    /\ prev_created' = [prev_created EXCEPT ![c] = created[c]]
    /\ calls' = [calls EXCEPT ![c] = IF @ < MaxConcCalls THEN @ + 1 ELSE @]
    /\ UNCHANGED <<_index_configs, vdb, existing_index_names, dropped, evalVars, imgVars>>

\* faulty variant of line 31: the tracked dict is not cleared
L31_NoClear(c) ==
    /\ pc[c] = "L31"
    /\ pc' = [pc EXCEPT ![c] = "L32"]
    /\ UNCHANGED <<_index_configs, vdb, args, existing_index_names, pos, created,
                   before, repeated, prev_created, calls, dropped, evalVars, imgVars>>

\* line 31: self._index_configs.clear()
L31_clear(c) ==
    /\ pc[c] = "L31"
    /\ _index_configs' = EmptyDict
    /\ pc' = [pc EXCEPT ![c] = "L32"]
    /\ UNCHANGED <<vdb, args, existing_index_names, pos, created, before, repeated, prev_created, calls, dropped, evalVars, imgVars>>

\* faulty variant of line 32: the list is not read; the one remembered is used
L32_CachedList(c) ==
    /\ pc[c] = "L32"
    /\ pc' = [pc EXCEPT ![c] = "L33"]
    /\ UNCHANGED <<_index_configs, vdb, args, existing_index_names, pos, created,
                   before, repeated, prev_created, calls, dropped, evalVars, imgVars>>

\* line 32: existing_index_names = self._list_search_index_names_from_vdb()
L32_list(c) ==
    /\ pc[c] = "L32"
    /\ existing_index_names' =
           [existing_index_names EXCEPT ![c] = _list_search_index_names_from_vdb]
    /\ pc' = [pc EXCEPT ![c] = "L33"]
    /\ UNCHANGED <<_index_configs, vdb, args, pos, created, before, repeated, prev_created, calls, dropped, evalVars, imgVars>>

\* faulty variant of line 34: the existing-index test is dropped
L33_AlwaysCreate(c) ==
    /\ pc[c] = "L33"
    /\ pc' = [pc EXCEPT ![c] =
                IF pos[c] > Len(args[c].index_configs) THEN "returned" ELSE "L39"]
    /\ UNCHANGED <<_index_configs, vdb, args, existing_index_names, pos, created,
                   before, repeated, prev_created, calls, dropped, evalVars, imgVars>>

\* lines 33-34: the loop head and the create-or-skip test
L33_for(c) ==
    /\ pc[c] = "L33"
    /\ pc' = [pc EXCEPT ![c] =
                IF pos[c] > Len(args[c].index_configs) THEN "returned"
                ELSE IF \/ CurrentConfig(c).index_name \notin existing_index_names[c]
                        \/ args[c].override_existing
                     THEN "L39"
                     ELSE "L36"]
    /\ UNCHANGED <<_index_configs, vdb, args, existing_index_names, pos, created,
                   before, repeated, prev_created, calls, dropped, evalVars, imgVars>>

\* faulty variant of lines 39-47: the supported-algorithm test is missing
L39_NoAlgorithmCheck(c) ==
    /\ pc[c] = "L39"
    /\ pc' = [pc EXCEPT ![c] =
                IF CurrentConfig(c).index_name \in DOMAIN _index_configs THEN "L36"
                ELSE "L48"]
    /\ UNCHANGED <<_index_configs, vdb, args, existing_index_names, pos, created,
                   before, repeated, prev_created, calls, dropped, evalVars, imgVars>>

\* lines 39-47 of _create_search_index_with_check: skip a name already
\* tracked, else raise NotImplementedError for an unsupported algorithm
L39_check(c) ==
    /\ pc[c] = "L39"
    /\ pc' = [pc EXCEPT ![c] =
                IF CurrentConfig(c).index_name \in DOMAIN _index_configs THEN "L36"
                ELSE IF CurrentConfig(c).search_algorithm \notin supported_vector_indexing
                     THEN "raised"
                     ELSE "L48"]
    /\ UNCHANGED <<_index_configs, vdb, args, existing_index_names, pos, created,
                   before, repeated, prev_created, calls, dropped, evalVars, imgVars>>

\* line 48: self._create_search_index(index_config); the backend gains the index
L48_create(c) ==
    /\ pc[c] = "L48"
    /\ vdb' = vdb \cup {CurrentConfig(c).index_name}
    /\ created' = [created EXCEPT ![c] = Append(@, CurrentConfig(c).index_name)]
    /\ pc' = [pc EXCEPT ![c] = "L36"]
    /\ UNCHANGED <<_index_configs, args, existing_index_names, pos, before, repeated, prev_created, calls, dropped, evalVars, imgVars>>

\* faulty variant of line 36: a name already tracked keeps its first config
L36_KeepFirst(c) ==
    /\ pc[c] = "L36"
    /\ _index_configs' =
           IF CurrentConfig(c).index_name \in DOMAIN _index_configs
           THEN _index_configs
           ELSE DictPut(_index_configs, CurrentConfig(c).index_name, CurrentConfig(c))
    /\ pos' = [pos EXCEPT ![c] = @ + 1]
    /\ pc' = [pc EXCEPT ![c] = "L33"]
    /\ UNCHANGED <<vdb, args, existing_index_names, created, before, repeated,
                   prev_created, calls, dropped, evalVars, imgVars>>

\* line 36: self._index_configs[index_config.index_name] = index_config
L36_assign(c) ==
    /\ pc[c] = "L36"
    /\ _index_configs' = DictPut(_index_configs, CurrentConfig(c).index_name,
                                 CurrentConfig(c))
    /\ pos' = [pos EXCEPT ![c] = @ + 1]
    /\ pc' = [pc EXCEPT ![c] = "L33"]
    /\ UNCHANGED <<vdb, args, existing_index_names, created, before, repeated, prev_created, calls, dropped, evalVars, imgVars>>

_create_search_index_with_check(c) ==
    \/ L39_check(c)
    \/ L48_create(c)

init_search_indices(c) ==
    \/ L31_clear(c)
    \/ L32_list(c)
    \/ L33_for(c)
    \/ _create_search_index_with_check(c)
    \/ L36_assign(c)

\* drop_search_index(index_name): the backend loses the index
drop_search_index(index_name) ==
    /\ vdb' = vdb \ {index_name}
    /\ dropped' = IF \E c \in Callers : index_name \in Range(created[c])
                  THEN dropped \cup {index_name} ELSE dropped
    /\ pc' = [c \in Callers |-> IF pc[c] \in {"returned", "raised"} THEN "idle" ELSE pc[c]]
    /\ UNCHANGED <<_index_configs, args, existing_index_names, pos, created, before,
                   repeated, prev_created, calls, evalVars, imgVars>>

\* --------------------------------------------------------------------------
\* Specifications of the index manager
\* --------------------------------------------------------------------------
InitIdx ==
    /\ _index_configs = EmptyDict
    /\ vdb \in SUBSET IndexNames
    /\ pc = [c \in Callers |-> "idle"]
    /\ args = [c \in Callers |-> [index_configs |-> <<>>, override_existing |-> FALSE]]
    /\ existing_index_names = [c \in Callers |-> {}]
    /\ pos = [c \in Callers |-> 1]
    /\ created = [c \in Callers |-> <<>>]
    /\ before = [c \in Callers |-> [tracked |-> EmptyDict, vdb |-> {}]]
    /\ repeated = [c \in Callers |-> FALSE]
    /\ prev_created = [c \in Callers |-> <<>>]
    /\ calls = [c \in Callers |-> 0]
    /\ dropped = {}

\* the evaluator's variables while the index manager runs
EvalIdle ==
    /\ node_length = 1
    /\ node_parents = 1
    /\ transform_fn = EmptyDict
    /\ default_vector = <<>>
    /\ storage = EmptyDict
    /\ evaluated = FALSE
    /\ parsed_schemas = <<>>
    /\ context = "ingest"
    /\ results = <<>>
    /\ loaded = <<>>
    /\ parent_evaluated = FALSE

\* no ImageSpace constructed
NoSpace == [outcome |-> "none", created |-> {}]

ImageIdle ==
    /\ image = [is_sequence |-> TRUE, value |-> <<>>]
    /\ space = NoSpace

Init == InitIdx /\ EvalIdle /\ ImageIdle

\* one caller: its calls and the drops follow one another
SeqCall ==
    \E index_configs \in SeqsUpTo(IndexConfig, MaxConfigs), override_existing \in BOOLEAN :
        CallInit(1, index_configs, override_existing)

SeqDrop ==
    \E index_name \in IndexNames :
        /\ pc[1] \in {"idle", "returned", "raised"}
        /\ drop_search_index(index_name)

Next ==
    \/ SeqCall
    \/ init_search_indices(1)
    \/ SeqDrop

Spec == Init /\ [][Next]_vars

\* two callers of the same manager, their statements interleaved
ConcCall ==
    \E c \in Callers, index_configs \in SeqsUpTo(IndexConfig, MaxConcConfigs),
       override_existing \in BOOLEAN :
        /\ calls[c] < MaxConcCalls
        /\ CallInit(c, index_configs, override_existing)

ConcDrop == \E index_name \in IndexNames : drop_search_index(index_name)

NextConc ==
    \/ ConcCall
    \/ \E c \in Callers : init_search_indices(c)
    \/ ConcDrop

SpecConc == Init /\ [][NextConc]_vars

\* --------------------------------------------------------------------------
\* Properties of the index manager
\* --------------------------------------------------------------------------
Configs(c) == args[c].index_configs

Unsupported(c, k) == Configs(c)[k].search_algorithm \notin supported_vector_indexing

\* creation is attempted for the k-th config of the call: its name is not in
\* the list read when the call began, or override_existing is set, and no
\* earlier config of the call carries its name
CreationAttempted(c, k) ==
    /\ \/ Configs(c)[k].index_name \notin before[c].vdb
       \/ args[c].override_existing
    /\ \A j \in 1..(k - 1) : Configs(c)[j].index_name # Configs(c)[k].index_name

\* C1: a call that repeats the previous call (same configs, override_existing
\* false, nothing in between) makes no create call and leaves the tracked dict
\* as the first call left it; over the two calls no index is created twice.
C1_InitIdempotent ==
    (pc[1] = "returned" /\ repeated[1] /\ ~args[1].override_existing)
        => /\ created[1] = <<>>
           /\ _index_configs = before[1].tracked
           /\ NoDuplicates(prev_created[1] \o created[1])

C1_Witness ==
    /\ pc[1] = "returned"
    /\ repeated[1]
    /\ ~args[1].override_existing
    /\ Len(prev_created[1]) = 2
    /\ DOMAIN _index_configs = IndexNames

\* C2 as stated: every config with an unsupported algorithm makes the call
\* fail, and the backend's list does not gain its name, whatever the
\* backend holds, whatever override_existing is, wherever the config stands.
C2_AsStated ==
    pc[1] \in {"returned", "raised"} =>
        \A k \in 1..Len(Configs(1)) :
            Unsupported(1, k) =>
                /\ pc[1] = "raised"
                /\ Configs(1)[k].index_name \notin vdb \ before[1].vdb

\* C2 amended: a config with an unsupported algorithm for which creation is
\* attempted makes the call fail at that config, with no create call for it
\* and without the backend gaining its name; a call returns without error
\* only when creation was attempted for no unsupported config.
C2_UnsupportedRejectedOnCreate ==
    /\ pc[1] = "returned" =>
           \A k \in 1..Len(Configs(1)) : ~(Unsupported(1, k) /\ CreationAttempted(1, k))
    /\ pc[1] = "raised" =>
           /\ pos[1] \in 1..Len(Configs(1))
           /\ Unsupported(1, pos[1])
           /\ CreationAttempted(1, pos[1])
           /\ \A k \in 1..(pos[1] - 1) : ~(Unsupported(1, k) /\ CreationAttempted(1, k))
           /\ CurrentConfig(1).index_name \notin Range(created[1])
           /\ CurrentConfig(1).index_name \notin vdb \ before[1].vdb

C2_Witness ==
    /\ pc[1] = "raised"
    /\ pos[1] = 2
    /\ args[1].override_existing
    /\ CurrentConfig(1).index_name \in before[1].vdb
    /\ created[1] # <<>>

\* C3 as stated: after a call rejected for an unsupported algorithm the
\* tracked dict and the backend's list are what they were before the call.
C3_AsStated ==
    pc[1] = "raised" =>
        /\ _index_configs = before[1].tracked
        /\ vdb = before[1].vdb

\* C3 amended: after a rejected call no index was created for the rejected
\* config or a later one; the tracked dict holds exactly the configs that
\* stood before the rejected one, and the backend's list is the list before
\* the call plus the indices created for those configs.
C3_RejectedCallKeepsEarlierConfigs ==
    pc[1] = "raised" =>
        LET earlier == SubSeq(Configs(1), 1, pos[1] - 1)
        IN  /\ _index_configs = DictOf(earlier)
            /\ vdb = before[1].vdb \cup Range(created[1])
            /\ Range(created[1]) \subseteq
                   {earlier[k].index_name : k \in 1..Len(earlier)}
                       \ {CurrentConfig(1).index_name}

C3_Witness ==
    /\ pc[1] = "raised"
    /\ pos[1] = 2
    /\ before[1].tracked # EmptyDict
    /\ _index_configs # before[1].tracked
    /\ vdb # before[1].vdb

\* C4: two interleaved callers (override_existing false) never both call
\* create for the same index name, dropped by nobody in between.
C4_NoDoubleCreate ==
    \A n \in IndexNames :
        (/\ n \notin dropped
         /\ ~args[1].override_existing
         /\ ~args[2].override_existing)
            => ~(n \in Range(created[1]) /\ n \in Range(created[2]))

\* C9: a call with override_existing false that returns has created exactly
\* the indices of its configs that the backend did not hold when the call
\* began - also one an earlier call created and a drop removed since - and
\* has skipped those the backend held.
C9_FreshListDecides ==
    (pc[1] = "returned" /\ ~args[1].override_existing) =>
        \A k \in 1..Len(Configs(1)) :
            (Configs(1)[k].index_name \in Range(created[1]))
                <=> (Configs(1)[k].index_name \notin before[1].vdb)

C9_Witness ==
    /\ pc[1] = "returned"
    /\ ~args[1].override_existing
    /\ Len(Configs(1)) = 2
    /\ \E n \in dropped : n \in Range(created[1])
    /\ \E n \in before[1].vdb : n \in Range(prev_created[1]) /\ n \notin Range(created[1])

\* C11: after a call that returns without error the tracked dict holds
\* exactly the index names of the configs passed, each with the last config
\* given under that name, skipped creations included; nothing tracked by an
\* earlier call is kept.
C11_TrackedIsConfigsOfCall ==
    pc[1] = "returned" =>
        /\ DOMAIN _index_configs =
               {Configs(1)[k].index_name : k \in 1..Len(Configs(1))}
        /\ _index_configs = DictOf(Configs(1))

C11_Witness ==
    /\ pc[1] = "returned"
    /\ ~args[1].override_existing
    /\ Len(Configs(1)) = 2
    /\ Configs(1)[1].index_name = Configs(1)[2].index_name
    /\ Configs(1)[1] # Configs(1)[2]
    /\ Configs(1)[1].index_name \in before[1].vdb
    /\ created[1] = <<>>
    /\ \E n \in DOMAIN before[1].tracked : n \notin DOMAIN _index_configs
    /\ _index_configs[Configs(1)[2].index_name] = Configs(1)[2]

\* --------------------------------------------------------------------------
\* OnlineNumberEmbeddingNode
\* --------------------------------------------------------------------------
RecordIds == {1, 2}

\* the numbers a record's field holds: 0.0 and 5.0
Values == {0, 5}

\* the default value declared for the number field: 0.0
DefaultValue == 0

FieldName == "number"

\* the field -> value mapping of a record: the field is there or is absent
FieldMappings == {EmptyDict} \cup {[f \in {FieldName} |-> v] : v \in Values}

\* ParsedSchema: (schema, record id, mapping field -> value), one schema
ParsedSchema == [id_ : RecordIds, fields : FieldMappings]

\* ExecutionContext: an ingestion pass, or a pass that asks for defaults
Contexts == {"ingest", "default"}

\* Vector: a tuple of the given length
Vectors(n) == [1..n -> {0, 1}]

\* Vector.init_zero_vector(length)
init_zero_vector(n) == [k \in 1..n |-> 0]

None == [none |-> TRUE]

\* EvaluationResult: result.main.value is the value produced
EvaluationResult(value) == [main |-> [value |-> value]]

\* OnlineNode._wrap_in_evaluation_result
_wrap_in_evaluation_result(result) == EvaluationResult(result)

\* NumberEmbeddingConfig.should_return_default(context)
should_return_default(ctx) == ctx = "default"

\* self.embedding_transformation.transform(value, context)
transform(value, ctx) == transform_fn[value]

\* OnlineNode.evaluate_parent over a schema-field parent: the field's value
\* of each record of the batch, in order, None where the field is absent
evaluate_parent(schemas, ctx) ==
    [k \in 1..Len(schemas) |->
        IF FieldName \in DOMAIN schemas[k].fields
        THEN EvaluationResult(schemas[k].fields[FieldName])
        ELSE None]

\* OnlineNode.load_stored_results_with_default: the stored value of each
\* key, in order, the default where nothing is stored
load_stored_results_with_default(keys, default) ==
    [k \in 1..Len(keys) |->
        IF keys[k] \in DOMAIN storage THEN storage[keys[k]] ELSE default]

\* faulty variant of _evaluate_parent_result: a missing parent result is given the
\* transformation of the declared default value
_evaluate_parent_result_TransformsDefault(parent_result, ctx) ==
    IF parent_result = None
    THEN transform(DefaultValue, ctx)
    ELSE transform(parent_result.main.value, ctx)

\* lines 80-87
_evaluate_parent_result(parent_result, ctx) ==
    IF parent_result = None
    THEN init_zero_vector(node_length)
    ELSE transform(parent_result.main.value, ctx)

WrapAll(rs) == [k \in 1..Len(rs) |-> _wrap_in_evaluation_result(rs[k])]

Keys(schemas) == [k \in 1..Len(schemas) |-> schemas[k].id_]

\* faulty variant of evaluate_self: records without a parent result are left out
evaluate_self_DropsAbsent(schemas, ctx) ==
    IF should_return_default(ctx)
    THEN [results |-> WrapAll([k \in 1..Len(schemas) |-> default_vector]),
          loaded |-> <<>>, parent_evaluated |-> FALSE, storage |-> storage]
    ELSE IF node_parents = 0
    THEN [results |-> WrapAll(load_stored_results_with_default(
                                  Keys(schemas), init_zero_vector(node_length))),
          loaded |-> Keys(schemas), parent_evaluated |-> FALSE, storage |-> storage]
    ELSE LET parent_results == SelectSeq(evaluate_parent(schemas, ctx),
                                         LAMBDA r : r # None)
         IN  [results |-> WrapAll([k \in 1..Len(parent_results) |->
                                      _evaluate_parent_result(parent_results[k], ctx)]),
              loaded |-> <<>>, parent_evaluated |-> TRUE, storage |-> storage]

\* faulty variant of evaluate_self: the default shortcut is missing
evaluate_self_NoDefaultShortcut(schemas, ctx) ==
    IF node_parents = 0
    THEN [results |-> WrapAll(load_stored_results_with_default(
                                  Keys(schemas), init_zero_vector(node_length))),
          loaded |-> Keys(schemas), parent_evaluated |-> FALSE, storage |-> storage]
    ELSE LET parent_results == evaluate_parent(schemas, ctx)
         IN  [results |-> WrapAll([k \in 1..Len(parent_results) |->
                                      _evaluate_parent_result(parent_results[k], ctx)]),
              loaded |-> <<>>, parent_evaluated |-> TRUE, storage |-> storage]

\* faulty variant of evaluate_self: the parent is evaluated before the default
\* shortcut is looked at
evaluate_self_ParentBeforeDefault(schemas, ctx) ==
    IF node_parents # 0
    THEN LET parent_results == evaluate_parent(schemas, ctx)
         IN  [results |-> WrapAll([k \in 1..Len(parent_results) |->
                                      IF should_return_default(ctx) THEN default_vector
                                      ELSE _evaluate_parent_result(parent_results[k], ctx)]),
              loaded |-> <<>>, parent_evaluated |-> TRUE, storage |-> storage]
    ELSE IF should_return_default(ctx)
    THEN [results |-> WrapAll([k \in 1..Len(schemas) |-> default_vector]),
          loaded |-> <<>>, parent_evaluated |-> FALSE, storage |-> storage]
    ELSE [results |-> WrapAll(load_stored_results_with_default(
                                  Keys(schemas), init_zero_vector(node_length))),
          loaded |-> Keys(schemas), parent_evaluated |-> FALSE, storage |-> storage]

\* lines 62-78: what evaluate_self returns, the storage keys it looks up,
\* whether it evaluates the parent, and the storage it leaves
evaluate_self(schemas, ctx) ==
    IF should_return_default(ctx)
    THEN [results |-> WrapAll([k \in 1..Len(schemas) |-> default_vector]),
          loaded |-> <<>>, parent_evaluated |-> FALSE, storage |-> storage]
    ELSE IF node_parents = 0
    THEN [results |-> WrapAll(load_stored_results_with_default(
                                  Keys(schemas), init_zero_vector(node_length))),
          loaded |-> Keys(schemas), parent_evaluated |-> FALSE, storage |-> storage]
    ELSE LET parent_results == evaluate_parent(schemas, ctx)
         IN  [results |-> WrapAll([k \in 1..Len(parent_results) |->
                                      _evaluate_parent_result(parent_results[k], ctx)]),
              loaded |-> <<>>, parent_evaluated |-> TRUE, storage |-> storage]

\* the query evaluator of the same node: the value the query supplies goes
\* through the same transformation config, default shortcut included
query_evaluate(value, ctx) ==
    IF should_return_default(ctx) THEN default_vector ELSE transform(value, ctx)

\* one evaluation pass over a batch
Evaluate ==
    \E schemas \in SeqsUpTo(ParsedSchema, MaxBatch), ctx \in Contexts :
        LET r == evaluate_self(schemas, ctx)
        IN  /\ ~evaluated
            /\ parsed_schemas' = schemas
            /\ context' = ctx
            /\ results' = r.results
            /\ loaded' = r.loaded
            /\ parent_evaluated' = r.parent_evaluated
            /\ storage' = r.storage
            /\ evaluated' = TRUE
            /\ UNCHANGED <<node_length, node_parents, transform_fn, default_vector, idxVars,
                           imgVars>>

\* the pass ends: its EvaluationResults are not kept
Discard ==
    /\ evaluated
    /\ evaluated' = FALSE
    /\ parsed_schemas' = <<>>
    /\ context' = "ingest"
    /\ results' = <<>>
    /\ loaded' = <<>>
    /\ parent_evaluated' = FALSE
    /\ UNCHANGED <<node_length, node_parents, transform_fn, default_vector, storage,
                   idxVars, imgVars>>

\* the storage manager's write path, between passes: a vector is stored
\* for a record
Persist ==
    \E id \in RecordIds, v \in Vectors(node_length) :
        /\ ~evaluated
        /\ storage' = DictPut(storage, id, v)
        /\ UNCHANGED <<node_length, node_parents, transform_fn, default_vector,
                       evaluated, parsed_schemas, context, results, loaded,
                       parent_evaluated, idxVars, imgVars>>

\* the index manager's variables while the evaluator runs
IdxIdle ==
    /\ InitIdx
    /\ vdb = {}

\* the node as constructed: any length, zero or one parent, any
\* transformation, any default vector of the node's length; empty storage
InitEval ==
    /\ IdxIdle
    /\ ImageIdle
    /\ node_length \in 1..MaxLength
    /\ node_parents \in {0, 1}
    /\ transform_fn \in [Values -> Vectors(node_length)]
    /\ default_vector \in Vectors(node_length)
    /\ storage = EmptyDict
    /\ evaluated = FALSE
    /\ parsed_schemas = <<>>
    /\ context = "ingest"
    /\ results = <<>>
    /\ loaded = <<>>
    /\ parent_evaluated = FALSE

NextEval == Evaluate \/ Discard \/ Persist

SpecEval == InitEval /\ [][NextEval]_vars

\* --------------------------------------------------------------------------
\* Properties of the online number-embedding node
\* --------------------------------------------------------------------------
Present(schema) == FieldName \in DOMAIN schema.fields

\* the vector evaluate_self owes one record
ResultFor(schema, ctx) ==
    IF should_return_default(ctx) THEN default_vector
    ELSE IF node_parents = 0
         THEN IF schema.id_ \in DOMAIN storage THEN storage[schema.id_]
              ELSE init_zero_vector(node_length)
         ELSE IF Present(schema) THEN transform(schema.fields[FieldName], ctx)
              ELSE init_zero_vector(node_length)

\* C5: evaluate_self returns one entry per record of the batch, the k-th
\* entry being the result of the k-th record, absent values included, in
\* each of the three branches.
C5_OrderPreserved ==
    evaluated =>
        /\ Len(results) = Len(parsed_schemas)
        /\ \A k \in 1..Len(parsed_schemas) :
               results[k] = EvaluationResult(ResultFor(parsed_schemas[k], context))

C5_Witness ==
    /\ evaluated
    /\ node_parents = 1
    /\ ~should_return_default(context)
    /\ Len(parsed_schemas) = 2
    /\ ~Present(parsed_schemas[1])
    /\ Present(parsed_schemas[2])
    /\ results[1] # results[2]

\* C6 as stated: with a parent and no default shortcut, the entry of a
\* record with value v is transform(v) and the entry of a record without a
\* value is transform(d), d the declared default value.
C6_AsStated ==
    (evaluated /\ node_parents = 1 /\ ~should_return_default(context)) =>
        \A k \in 1..Len(parsed_schemas) :
            results[k].main.value =
                IF Present(parsed_schemas[k])
                THEN transform(parsed_schemas[k].fields[FieldName], context)
                ELSE transform(DefaultValue, context)

\* C6 amended: the entry of a record with value v is transform(v); the
\* entry of a record without a value is the zero vector of the node's
\* declared length.
C6_AbsentYieldsZeroVector ==
    (evaluated /\ node_parents = 1 /\ ~should_return_default(context)) =>
        /\ Len(results) = Len(parsed_schemas)
        /\ \A k \in 1..Len(parsed_schemas) :
               results[k].main.value =
                   IF Present(parsed_schemas[k])
                   THEN transform(parsed_schemas[k].fields[FieldName], context)
                   ELSE init_zero_vector(node_length)

C6_Witness ==
    /\ evaluated
    /\ node_parents = 1
    /\ ~should_return_default(context)
    /\ Len(parsed_schemas) = 2
    /\ Present(parsed_schemas[1])
    /\ parsed_schemas[1].fields[FieldName] = 5
    /\ ~Present(parsed_schemas[2])
    /\ transform(DefaultValue, context) # init_zero_vector(node_length)
    /\ results[2].main.value = init_zero_vector(node_length)

C10_DefaultShortcut ==
    [][(evaluated' /\ should_return_default(context')) =>
          /\ Len(results') = Len(parsed_schemas')
          /\ \A k \in 1..Len(results') : results'[k] = EvaluationResult(default_vector)
          /\ loaded' = <<>>
          /\ ~parent_evaluated'
          /\ storage' = storage]_vars

C10_Witness ==
    /\ evaluated
    /\ should_return_default(context)
    /\ node_parents = 1
    /\ Len(parsed_schemas) = 2
    /\ storage # EmptyDict
    /\ results[1].main.value = default_vector
    /\ default_vector # init_zero_vector(node_length)

\* --------------------------------------------------------------------------
\* ImageSpace
\* --------------------------------------------------------------------------
SchemaObjects == {"schema_1", "schema_2"}

\* a Blob field and a String field of a schema
Blob == [kind : {"Blob"}, name : {"image"}, schema_obj : SchemaObjects]

String == [kind : {"String"}, name : {"description"}, schema_obj : SchemaObjects]

DescribedBlob == [kind : {"DescribedBlob"}, blob : Blob, description : String]

\* the image argument: one Blob or DescribedBlob, or a sequence of them
ImageArguments ==
    [is_sequence : {FALSE}, value : Blob \cup DescribedBlob]
        \cup [is_sequence : {TRUE}, value : SeqsUpTo(Blob \cup DescribedBlob, MaxImages)]

\* images if isinstance(images, Sequence) else [images]
AsSequence(images) == IF images.is_sequence THEN images.value ELSE <<images.value>>

IsDescribedBlob(item) == item.kind = "DescribedBlob"

\* faulty variant of __validate_field_schemas: a sequence is not looked into
ValidateSingleOnly(images) ==
    /\ ~images.is_sequence
    /\ IsDescribedBlob(images.value)
    /\ images.value.description.schema_obj # images.value.blob.schema_obj

\* lines 125-131: TRUE when InvalidSpaceParamException is raised
__validate_field_schemas(images) ==
    \E k \in 1..Len(AsSequence(images)) :
        /\ IsDescribedBlob(AsSequence(images)[k])
        /\ AsSequence(images)[k].description.schema_obj
               # AsSequence(images)[k].blob.schema_obj

\* lines 133-143: the blobs and the descriptions (None for a plain Blob)
_split_images_from_descriptions(images) ==
    LET items == AsSequence(images)
    IN  [blobs |-> [k \in 1..Len(items) |->
                       IF IsDescribedBlob(items[k]) THEN items[k].blob ELSE items[k]],
         descriptions |-> [k \in 1..Len(items) |->
                       IF IsDescribedBlob(items[k]) THEN items[k].description ELSE None]]

\* lines 191-206: one embedding node per schema of an image field, the last
\* image field of a schema winning
RECURSIVE _init_embedding_node_by_schema(_, _)
_init_embedding_node_by_schema(image_fields, description_fields) ==
    IF Len(image_fields) = 0 THEN EmptyDict
    ELSE LET n == Len(image_fields)
         IN  DictPut(_init_embedding_node_by_schema(SubSeq(image_fields, 1, n - 1),
                                                    SubSeq(description_fields, 1, n - 1)),
                     image_fields[n].schema_obj,
                     [image_blob_node |-> image_fields[n],
                      description_node |-> description_fields[n]])

\* lines 102-115: what ImageSpace.__init__ leaves
ImageSpace(images) ==
    IF __validate_field_schemas(images)
    THEN [outcome |-> "InvalidSpaceParamException", created |-> {}]
    ELSE IF Len(AsSequence(images)) = 0
    THEN \* line 137: unpacking the empty zip raises
         [outcome |-> "ValueError", created |-> {}]
    ELSE LET split == _split_images_from_descriptions(images)
             image_fields == split.blobs
             description_fields == split.descriptions
         IN  [outcome |-> "constructed",
              created |-> {"image", "description", "_transformation_config",
                           "embedding_node_by_schema"},
              image |-> Range(image_fields),
              description |-> Range(description_fields) \ {None},
              embedding_node_by_schema |->
                  _init_embedding_node_by_schema(image_fields, description_fields)]

\* a space is constructed from an image argument
Construct ==
    \E images \in ImageArguments :
        /\ image' = images
        /\ space' = ImageSpace(images)
        /\ UNCHANGED <<idxVars, evalVars>>

InitImage ==
    /\ IdxIdle
    /\ EvalIdle
    /\ ImageIdle

NextImage == Construct

SpecImage == InitImage /\ [][NextImage]_vars

\* --------------------------------------------------------------------------
\* Properties of ImageSpace
\* --------------------------------------------------------------------------
\* some DescribedBlob of the argument has its description and its blob in
\* different schemas
MixedSchemas(images) ==
    \E item \in Range(AsSequence(images)) :
        /\ IsDescribedBlob(item)
        /\ item.description.schema_obj # item.blob.schema_obj

\* C8: construction fails with InvalidSpaceParamException, with no attribute
\* of the space set, whenever a DescribedBlob of the argument - alone or
\* anywhere in a sequence - has description and blob in different schemas,
\* and does not fail so when every described pair shares its schema.
C8_MixedSchemasRejected ==
    space # NoSpace =>
        /\ MixedSchemas(image) =>
               (space.outcome = "InvalidSpaceParamException" /\ space.created = {})
        /\ ~MixedSchemas(image) => space.outcome # "InvalidSpaceParamException"

C8_Witness ==
    /\ space.outcome = "InvalidSpaceParamException"
    /\ image.is_sequence
    /\ Len(image.value) = 3
    /\ ~IsDescribedBlob(image.value[1])
    /\ IsDescribedBlob(image.value[2])
    /\ image.value[2].description.schema_obj = image.value[2].blob.schema_obj
    /\ IsDescribedBlob(image.value[3])
    /\ image.value[3].description.schema_obj # image.value[3].blob.schema_obj

====
